---- MODULE Spec2Model ----
(***************************************************************************)
(* Model of the ed-debby line editor: the LineBuffer, the range validator, *)
(* the address-to-index conversion, the verb handlers dispatched by        *)
(* command_runner, and the REPL loop of main that feeds it commands.       *)
(***************************************************************************)
EXTENDS Integers, Sequences, FiniteSets, TLC

----------------------------------------------------------------------------
(* Bounds of the exploration *)

\* longest buffer explored (number of lines)
MaxLines == 3
\* most lines collected by one visit to line-input mode
MaxInput == 2
\* largest absolute address written in a command: past the end of every
\* buffer but the longest
MaxAbs == MaxLines
\* the texts a line can hold
LineTexts == {"a", "b"}
\* file names: the one given on the command line, and one given to w / wq
LoadName == "f"
ArgName == "g"

----------------------------------------------------------------------------
(* Option<T> *)

NoneLines == [some |-> FALSE, v |-> <<>>]
SomeLines(s) == [some |-> TRUE, v |-> s]
NoneStr == [some |-> FALSE, v |-> ""]
SomeStr(s) == [some |-> TRUE, v |-> s]

\* all sequences over S of length at most n
SeqsUpTo(S, n) == UNION {[1..k -> S] : k \in 0..n}

----------------------------------------------------------------------------
(* command_structs.rs / ed_command_parser.rs: Address, RangeSep, EdCommand *)

Current == [tag |-> "Current", n |-> 0]
Last == [tag |-> "Last", n |-> 0]
NoAddress == [tag |-> "None", n |-> 0]
Absolute(k) == [tag |-> "Absolute", n |-> k]

\* position of a variant in the enum declaration, used by the derived Ord
variant_rank(a) ==
    CASE a.tag = "Current" -> 0
      [] a.tag = "Absolute" -> 1
      [] a.tag = "Last" -> 2
      [] a.tag = "None" -> 3

\* #[derive(PartialOrd, Ord)] on Address: a > b
address_gt(a, b) ==
    \/ variant_rank(a) > variant_rank(b)
    \/ /\ variant_rank(a) = variant_rank(b)
       /\ a.tag = "Absolute"
       /\ a.n > b.n

RangeSep == {"Comma", "Semicolon"}

\* the addresses a parsed command line can carry
Addresses == {Current, Last} \cup {Absolute(k) : k \in 0..MaxAbs}

\* the verbs of the dispatch table, and one verb it does not know
KnownVerbs == {"q", "w", "wq", "p", "i", "=", "a", "c", "d", "n"}
Verbs == KnownVerbs \cup {"x"}

\* what line-input mode hands back: Ok(lines) or Err(InputModeError)
NoInput == [err |-> FALSE, lines |-> <<>>]

EdCommand_default ==
    [address1 |-> Current, address2 |-> Current, range_sep |-> "Comma",
     command |-> NoneStr, command_args |-> NoneStr]

----------------------------------------------------------------------------
(* buffer/line_array_buffer.rs: LineBuffer *)

empty == [lines |-> NoneLines, filename |-> NoneStr, current_line |-> 0]

from_file(name, content) ==
    [lines |-> SomeLines(content), filename |-> SomeStr(name), current_line |-> 0]

\* number of lines, 0 when lines is absent
len(b) == IF b.lines.some THEN Len(b.lines.v) ELSE 0

\* LineBuffer::save: io_ok is whether File::create and the writes succeed
save_without_name_check(b, arg, io_ok) ==
    LET named == IF arg.some THEN [b EXCEPT !.filename = SomeStr(arg.v)] ELSE b
        target == IF arg.some THEN arg ELSE b.filename
    IN  IF ~io_ok
        THEN [buffer |-> named, res |-> "IoError", written |-> NoneLines, path |-> target]
        ELSE [buffer |-> named, res |-> "Ok",
              written |-> SomeLines(b.lines.v), path |-> target]

save_forgets_name(b, arg, io_ok) ==
    LET target == IF arg.some THEN arg ELSE b.filename
    IN  IF ~target.some
        THEN [buffer |-> b, res |-> "NoFilename", written |-> NoneLines, path |-> NoneStr]
        ELSE IF ~io_ok
        THEN [buffer |-> b, res |-> "IoError", written |-> NoneLines, path |-> target]
        ELSE [buffer |-> b, res |-> "Ok",
              written |-> SomeLines(b.lines.v), path |-> target]

save(b, arg, io_ok) ==
    LET named == IF arg.some THEN [b EXCEPT !.filename = SomeStr(arg.v)] ELSE b
        target == IF arg.some THEN arg ELSE b.filename
    IN  IF ~target.some
        THEN [buffer |-> b, res |-> "NoFilename", written |-> NoneLines, path |-> NoneStr]
        ELSE IF ~io_ok
        THEN [buffer |-> named, res |-> "IoError", written |-> NoneLines, path |-> target]
        ELSE [buffer |-> named, res |-> "Ok",
              written |-> SomeLines(b.lines.v), path |-> target]

\* the characters save puts in the file: writeln!(file, "{}", line) for
\* each line
RECURSIVE file_contents(_)
file_contents(v) ==
    IF v = <<>> THEN <<>>
    ELSE Head(v) \o <<"\n">> \o file_contents(Tail(v))

\* what BufRead::lines() makes of a line that ended in "\n": the "\n" has
\* gone, and so has a "\r" right before it
without_line_end(l) ==
    IF l # <<>> /\ l[Len(l)] = "\r" THEN SubSeq(l, 1, Len(l) - 1) ELSE l

\* reader.lines().collect(): the characters up to each "\n" are a line; the
\* characters after the last "\n", if any, are a line too
RECURSIVE read_lines(_, _)
read_lines(chars, line) ==
    IF chars = <<>> THEN (IF line = <<>> THEN <<>> ELSE <<line>>)
    ELSE IF Head(chars) = "\n"
    THEN <<without_line_end(line)>> \o read_lines(Tail(chars), <<>>)
    ELSE read_lines(Tail(chars), Append(line, Head(chars)))

----------------------------------------------------------------------------
(* ed_commands.rs: range validation and address resolution *)

saturating_sub(a, b) == IF a >= b THEN a - b ELSE 0

\* the cursor repair at the head of validate_range
clamp_current_line(b) ==
    IF b.current_line > len(b) THEN [b EXCEPT !.current_line = len(b)] ELSE b

\* the match that turns Current / Last into Absolute
to_absolute(address, b) ==
    CASE address.tag = "Current" -> Absolute(b.current_line)
      [] address.tag = "Last" -> Absolute(len(b))
      [] OTHER -> address

\* (variant) the bound check with >= for >: the last line counts as outside
out_of_bounds_inclusive(address, b) ==
    address.tag = "Absolute" /\ address.n >= len(b)

\* one of the two "is the address within the buffer" checks
out_of_bounds(address, b) == address.tag = "Absolute" /\ address.n > len(b)

\* (variant) Current and Last are resolved before the cursor is repaired
validate_range_resolves_first(b, command) ==
    LET b1 == clamp_current_line(b)
        address1 == to_absolute(command.address1, b)
        address2 == to_absolute(command.address2, b)
    IN  [buffer |-> b1,
         res |-> IF address_gt(address1, address2) THEN "InvalidRange"
                 ELSE IF out_of_bounds(address1, b1) THEN "InvalidRange"
                 ELSE IF out_of_bounds(address2, b1) THEN "InvalidRange"
                 ELSE "Ok"]

\* (variant) the order of the two addresses is not checked
validate_range_without_order_check(b, command) ==
    LET b1 == clamp_current_line(b)
        address1 == to_absolute(command.address1, b1)
        address2 == to_absolute(command.address2, b1)
    IN  [buffer |-> b1,
         res |-> IF out_of_bounds(address1, b1) THEN "InvalidRange"
                 ELSE IF out_of_bounds(address2, b1) THEN "InvalidRange"
                 ELSE "Ok"]

\* validate_range: the repaired buffer and Ok or InvalidRange
validate_range(b, command) ==
    LET b1 == clamp_current_line(b)
        address1 == to_absolute(command.address1, b1)
        address2 == to_absolute(command.address2, b1)
    IN  [buffer |-> b1,
         res |-> IF address_gt(address1, address2) THEN "InvalidRange"
                 ELSE IF out_of_bounds(address1, b1) THEN "InvalidRange"
                 ELSE IF out_of_bounds(address2, b1) THEN "InvalidRange"
                 ELSE "Ok"]

\* (variant) the clamp stops at the length instead of the last index
address_to_index_clamps_to_len(address, b) ==
    LET index == CASE address.tag = "Absolute" -> address.n
                   [] address.tag = "Last" -> len(b)
                   [] address.tag = "Current" -> b.current_line
                   [] OTHER -> b.current_line
    IN  IF index >= len(b)
        THEN len(b)
        ELSE saturating_sub(index, 1)

address_to_index(address, b) ==
    LET index == CASE address.tag = "Absolute" -> address.n
                   [] address.tag = "Last" -> len(b)
                   [] address.tag = "Current" -> b.current_line
                   [] OTHER -> b.current_line
    IN  IF index >= len(b)
        THEN saturating_sub(len(b), 1)
        ELSE saturating_sub(index, 1)

----------------------------------------------------------------------------
(* Vec::splice(i..j, new): panics unless i <= j <= len *)

splice_panics(v, i, j) == i > j \/ j > Len(v)

splice(v, i, j, new) == SubSeq(v, 1, i) \o new \o SubSeq(v, j + 1, Len(v))

----------------------------------------------------------------------------
(* What one run of a verb handler yields:                                  *)
(*   buffer   the buffer it leaves                                         *)
(*   res      Continue, Quit, an error, or Panic                           *)
(*   out      the lines printed on standard output                         *)
(*   input    whether line-input mode was entered                          *)
(*   written  the file content written by save, path its file name         *)

Outcome(b, res, out, input) ==
    [buffer |-> b, res |-> res, out |-> out, input |-> input,
     written |-> NoneLines, path |-> NoneStr]

\* the cursor value that c and d print
show(n) == ToString(n)

\* the handlers that neither print, read input nor save
quit_continues(b, command) == Outcome(b, "Continue", <<>>, FALSE)

quit(b, command) == Outcome(b, "Quit", <<>>, FALSE)

write(b, command, io_ok) ==
    LET s == save(b, command.command_args, io_ok)
    IN  [buffer |-> s.buffer, res |-> IF s.res = "Ok" THEN "Continue" ELSE s.res,
         out |-> <<>>, input |-> FALSE, written |-> s.written, path |-> s.path]

write_quit_always_quits(b, command, io_ok) ==
    LET s == save(b, command.command_args, io_ok)
    IN  [buffer |-> s.buffer, res |-> "Quit",
         out |-> <<>>, input |-> FALSE, written |-> s.written, path |-> s.path]

write_quit(b, command, io_ok) ==
    LET s == save(b, command.command_args, io_ok)
    IN  [buffer |-> s.buffer, res |-> IF s.res = "Ok" THEN "Quit" ELSE s.res,
         out |-> <<>>, input |-> FALSE, written |-> s.written, path |-> s.path]

\* println!("{}", lines[i]) for i in low..=high
plain_lines(v, low, high) == [k \in 1..(high - low + 1) |-> v[low + k]]

print_exclusive(b, command) ==
    LET low == address_to_index(command.address1, b)
        high == address_to_index(command.address2, b)
    IN  IF len(b) = 0 THEN Outcome(b, "EmptyBuffer", <<>>, FALSE)
        ELSE IF low > high THEN Outcome(b, "InvalidRange", <<>>, FALSE)
        ELSE IF b.lines.some
        THEN Outcome(b, "Continue", plain_lines(b.lines.v, low, high - 1), FALSE)
        ELSE Outcome(b, "Continue", <<"">>, FALSE)

\* (variant) the cursor moves to the last line printed
print_moves_cursor(b, command) ==
    LET low == address_to_index(command.address1, b)
        high == address_to_index(command.address2, b)
    IN  IF len(b) = 0 THEN Outcome(b, "EmptyBuffer", <<>>, FALSE)
        ELSE IF low > high THEN Outcome(b, "InvalidRange", <<>>, FALSE)
        ELSE IF b.lines.some
        THEN Outcome([b EXCEPT !.current_line = high + 1], "Continue",
                     plain_lines(b.lines.v, low, high), FALSE)
        ELSE Outcome(b, "Continue", <<"">>, FALSE)

\* (variant) the match on lines comes first: absent lines print a blank line
print_blank_when_absent(b, command) ==
    LET low == address_to_index(command.address1, b)
        high == address_to_index(command.address2, b)
    IN  IF ~b.lines.some THEN Outcome(b, "Continue", <<"">>, FALSE)
        ELSE IF len(b) = 0 THEN Outcome(b, "EmptyBuffer", <<>>, FALSE)
        ELSE IF low > high THEN Outcome(b, "InvalidRange", <<>>, FALSE)
        ELSE Outcome(b, "Continue", plain_lines(b.lines.v, low, high), FALSE)

print(b, command) ==
    LET low == address_to_index(command.address1, b)
        high == address_to_index(command.address2, b)
    IN  IF len(b) = 0 THEN Outcome(b, "EmptyBuffer", <<>>, FALSE)
        ELSE IF low > high THEN Outcome(b, "InvalidRange", <<>>, FALSE)
        ELSE IF b.lines.some
        THEN Outcome(b, "Continue", plain_lines(b.lines.v, low, high), FALSE)
        ELSE Outcome(b, "Continue", <<"">>, FALSE)

\* {:>4}: the number right-aligned in a field of four
right_align4(n) ==
    IF n < 10 THEN "   " \o ToString(n)
    ELSE IF n < 100 THEN "  " \o ToString(n)
    ELSE IF n < 1000 THEN " " \o ToString(n)
    ELSE ToString(n)

\* println!("{:>4}\t{}", i + 1, lines[i]) for i in low..=high
numbered_lines_from_zero(v, low, high) ==
    [k \in 1..(high - low + 1) |-> right_align4(low + k - 1) \o "\t" \o v[low + k]]

numbered_lines(v, low, high) ==
    [k \in 1..(high - low + 1) |-> right_align4(low + k) \o "\t" \o v[low + k]]

print_with_numbers(b, command) ==
    LET low == address_to_index(command.address1, b)
        high == address_to_index(command.address2, b)
    IN  IF len(b) = 0 THEN Outcome(b, "EmptyBuffer", <<>>, FALSE)
        ELSE IF low > high THEN Outcome(b, "InvalidRange", <<>>, FALSE)
        ELSE IF b.lines.some
        THEN Outcome(b, "Continue", numbered_lines(b.lines.v, low, high), FALSE)
        ELSE Outcome(b, "Continue", <<"">>, FALSE)

set_current_line_number_zero_based(b, command) ==
    [b EXCEPT !.current_line = address_to_index(command.address2, b)]

set_current_line_number(b, command) ==
    [b EXCEPT !.current_line = address_to_index(command.address2, b) + 1]

print_current_line_number(b, command) ==
    LET b1 == set_current_line_number(b, command)
    IN  Outcome(b1, "Continue", <<show(b1.current_line)>>, FALSE)

----------------------------------------------------------------------------
(* modify.rs: the handlers that edit the buffer.  The *_into_buffer and    *)
(* delete_from_buffer operators yield [res, buffer]: res is Ok, an error,  *)
(* or Panic when the splice range lies outside the vector (the vector is   *)
(* then untouched: the range is checked before anything is moved).         *)

\* buffer.lines spliced at i..j with new lines, cursor moved to cur
spliced(b, i, j, new, cur) ==
    IF ~b.lines.some
    THEN [res |-> "Ok", buffer |-> [b EXCEPT !.lines = SomeLines(new), !.current_line = cur]]
    ELSE IF splice_panics(b.lines.v, i, j)
    THEN [res |-> "Panic", buffer |-> b]
    ELSE [res |-> "Ok",
          buffer |-> [b EXCEPT !.lines = SomeLines(splice(b.lines.v, i, j, new)),
                               !.current_line = cur]]

\* (variant) the lines go in after the addressed line, as append does
insert_into_buffer_after(b, location, new) ==
    LET index == address_to_index(location, b) + 1
    IN  spliced(b, index, index, new, index + Len(new))

insert_into_buffer(b, location, new) ==
    LET index == address_to_index(location, b)
    IN  spliced(b, index, index, new, index + Len(new))

insert(b, command, input) ==
    IF input.err THEN Outcome(b, "InputModeError", <<>>, TRUE)
    ELSE LET r == insert_into_buffer(b, command.address2, input.lines)
         IN  Outcome(r.buffer, IF r.res = "Ok" THEN "Continue" ELSE r.res, <<>>, TRUE)

\* (variant) no special case for line 0: the lines go in after the first line
append_into_buffer_no_zero_case(b, location, new) ==
    LET index == address_to_index(location, b) + 1
    IN  spliced(b, index, index, new, index + Len(new))

append_into_buffer(b, location, new) ==
    LET after == address_to_index(location, b) + 1
        index == IF location = Absolute(0) THEN after - after ELSE after
    IN  spliced(b, index, index, new, index + Len(new))

append(b, command, input) ==
    IF input.err THEN Outcome(b, "InputModeError", <<>>, TRUE)
    ELSE LET r == append_into_buffer(b, command.address2, input.lines)
         IN  Outcome(r.buffer, IF r.res = "Ok" THEN "Continue" ELSE r.res, <<>>, TRUE)

\* (variant) the splice range index1..index2 leaves the last addressed line in
correct_into_buffer_exclusive(b, location1, location2, new) ==
    LET index1 == address_to_index(location1, b)
        index2 == address_to_index(location2, b)
    IN  spliced(b, index1, index2, new, index2 + Len(new))

correct_into_buffer(b, location1, location2, new) ==
    LET index1 == address_to_index(location1, b)
        index2 == address_to_index(location2, b)
    IN  spliced(b, index1, index2 + 1, new, index2 + Len(new))

correct(b, command, input) ==
    IF command.address1 = Absolute(0) THEN Outcome(b, "EmptyBuffer", <<>>, FALSE)
    ELSE IF input.err THEN Outcome(b, "InputModeError", <<>>, TRUE)
    ELSE LET r == correct_into_buffer(b, command.address1, command.address2, input.lines)
         IN  IF r.res = "Ok"
             THEN Outcome(r.buffer, "Continue", <<show(r.buffer.current_line)>>, TRUE)
             ELSE Outcome(r.buffer, r.res, <<>>, TRUE)

\* (variant) the splice range index1..index2 leaves the last addressed line in
delete_from_buffer_exclusive(b, location1, location2) ==
    LET index1 == address_to_index(location1, b)
        index2 == address_to_index(location2, b)
    IN  IF ~b.lines.some THEN [res |-> "EmptyBuffer", buffer |-> b]
        ELSE spliced(b, index1, index2, <<>>, index1)

delete_from_buffer(b, location1, location2) ==
    LET index1 == address_to_index(location1, b)
        index2 == address_to_index(location2, b)
    IN  IF ~b.lines.some THEN [res |-> "EmptyBuffer", buffer |-> b]
        ELSE spliced(b, index1, index2 + 1, <<>>, index1)

\* (variant) line 0 is refused only after the range has been removed
delete_checks_late(b, command) ==
    LET r == delete_from_buffer(b, command.address1, command.address2)
    IN  IF command.address1 = Absolute(0) THEN Outcome(r.buffer, "InvalidRange", <<>>, FALSE)
        ELSE IF r.res = "Ok"
        THEN Outcome(r.buffer, "Continue", <<show(r.buffer.current_line)>>, FALSE)
        ELSE Outcome(r.buffer, r.res, <<>>, FALSE)

\* (variant) line 0 is not refused at all
delete_without_zero_check(b, command) ==
    LET r == delete_from_buffer(b, command.address1, command.address2)
    IN  IF r.res = "Ok"
        THEN Outcome(r.buffer, "Continue", <<show(r.buffer.current_line)>>, FALSE)
        ELSE Outcome(r.buffer, r.res, <<>>, FALSE)

delete(b, command) ==
    IF command.address1 = Absolute(0) THEN Outcome(b, "InvalidRange", <<>>, FALSE)
    ELSE LET r == delete_from_buffer(b, command.address1, command.address2)
         IN  IF r.res = "Ok"
             THEN Outcome(r.buffer, "Continue", <<show(r.buffer.current_line)>>, FALSE)
             ELSE Outcome(r.buffer, r.res, <<>>, FALSE)

----------------------------------------------------------------------------
(* ed_commands.rs: command_runner.  handler names the verb handler that    *)
(* ran, "none" when validation failed and "noop" for the catch-all arm.    *)

\* (variant) a verb that is not known ends the session
dispatch_unknown_quits(b, command, input, io_ok) ==
    LET verb == command.command
    IN  CASE verb = SomeStr("q") -> quit(b, command)
          [] verb = SomeStr("w") -> write(b, command, io_ok)
          [] verb = SomeStr("wq") -> write_quit(b, command, io_ok)
          [] verb = SomeStr("p") -> print(b, command)
          [] verb = SomeStr("i") -> insert(b, command, input)
          [] verb = SomeStr("=") -> print_current_line_number(b, command)
          [] verb = SomeStr("a") -> append(b, command, input)
          [] verb = SomeStr("c") -> correct(b, command, input)
          [] verb = SomeStr("d") -> delete(b, command)
          [] verb = SomeStr("n") -> print_with_numbers(b, command)
          [] OTHER -> Outcome(b, "Quit", <<>>, FALSE)


dispatch(b, command, input, io_ok) ==
    LET verb == command.command
    IN  CASE verb = SomeStr("q") -> quit(b, command)
          [] verb = SomeStr("w") -> write(b, command, io_ok)
          [] verb = SomeStr("wq") -> write_quit(b, command, io_ok)
          [] verb = SomeStr("p") -> print(b, command)
          [] verb = SomeStr("i") -> insert(b, command, input)
          [] verb = SomeStr("=") -> print_current_line_number(b, command)
          [] verb = SomeStr("a") -> append(b, command, input)
          [] verb = SomeStr("c") -> correct(b, command, input)
          [] verb = SomeStr("d") -> delete(b, command)
          [] verb = SomeStr("n") -> print_with_numbers(b, command)
          [] OTHER -> Outcome(b, "Continue", <<>>, FALSE)

handler_of(command) ==
    IF command.command.some /\ command.command.v \in KnownVerbs
    THEN command.command.v ELSE "noop"

\* (variant) q is dispatched without its range being validated
command_runner_quit_first(b, command, input, io_ok) ==
    LET v == validate_range(b, command)
    IN  IF command.command = SomeStr("q")
        THEN [validated |-> v.res = "Ok", handler |-> "q", o |-> quit(b, command)]
        ELSE IF v.res # "Ok"
        THEN [validated |-> FALSE, handler |-> "none",
              o |-> Outcome(v.buffer, v.res, <<>>, FALSE)]
        ELSE [validated |-> TRUE, handler |-> handler_of(command),
              o |-> dispatch(v.buffer, command, input, io_ok)]

command_runner(b, command, input, io_ok) ==
    LET v == validate_range(b, command)
    IN  IF v.res # "Ok"
        THEN [validated |-> FALSE, handler |-> "none",
              o |-> Outcome(v.buffer, v.res, <<>>, FALSE)]
        ELSE [validated |-> TRUE, handler |-> handler_of(command),
              o |-> dispatch(v.buffer, command, input, io_ok)]

----------------------------------------------------------------------------
(* ed_command_parser.rs.  A text is the sequence of its characters.  The   *)
(* token grammar, ed_command.pest, is not among the sources: the rules     *)
(* range_rule and line_rule below follow the grammar of the specification, *)
(*   range ::= '%' | ';' | [address] [sep [address]]                       *)
(*   address ::= '.' | '$' | digit+        sep ::= ',' | ';'               *)
(*   line ::= range [verb [argument]]                                      *)
(* and what the unit tests of the parser show of it (a rule matches a      *)
(* prefix of its input; a line always has a range pair; "wfoo.txt" is the  *)
(* verb w with the argument foo.txt).  The loops over the pairs are those  *)
(* of the source.                                                          *)

\* the longest text that is typed
MaxText == 3

\* twenty 9s typed in a row, taken as one piece of text: a decimal number
\* that holds them exceeds usize::MAX = 18446744073709551615
Nines20 == "99999999999999999999"

DigitChars == {"0", "5"}
Digits == DigitChars \cup {Nines20}
VerbChars == {"w", "q"}
TextChars == Digits \cup VerbChars \cup {".", "$", ",", ";", "%", "!"}

DigitValue(c) == IF c = "5" THEN 5 ELSE 0

RECURSIVE decimal(_)
decimal(t) ==
    IF t = <<>> THEN 0
    ELSE 10 * decimal(SubSeq(t, 1, Len(t) - 1)) + DigitValue(t[Len(t)])

\* input.parse::<usize>(): at least one digit, digits only, and a value
\* that fits in a usize
parse_usize(t) ==
    IF /\ Len(t) > 0
       /\ \A k \in 1..Len(t) : t[k] \in Digits
       /\ \A k \in 1..Len(t) : t[k] # Nines20
    THEN [ok |-> TRUE, n |-> decimal(t)]
    ELSE [ok |-> FALSE, n |-> 0]

NoneAddress == [some |-> FALSE, v |-> NoAddress]
SomeAddress(a) == [some |-> TRUE, v |-> a]

from_str(input) ==
    IF input = <<".">> THEN SomeAddress(Current)
    ELSE IF input = <<"$">> THEN SomeAddress(Last)
    ELSE IF parse_usize(input).ok THEN SomeAddress(Absolute(parse_usize(input).n))
    ELSE NoneAddress

Pair(rule, text) == [rule |-> rule, text |-> text]

RECURSIVE digit_run(_, _)
digit_run(t, i) ==
    IF i <= Len(t) /\ t[i] \in Digits THEN 1 + digit_run(t, i + 1) ELSE 0

\* how many characters the rule address takes at position i
address_rule(t, i) ==
    IF i > Len(t) THEN 0
    ELSE IF t[i] \in {".", "$"} THEN 1
    ELSE digit_run(t, i)

\* [address] [sep [address]]
general_range(t) ==
    LET n1 == address_rule(t, 1)
        s == n1 + 1
        sep == s <= Len(t) /\ t[s] \in {",", ";"}
        n2 == IF sep THEN address_rule(t, s + 1) ELSE 0
    IN  [pairs |-> (IF n1 > 0 THEN <<Pair("address", SubSeq(t, 1, n1))>> ELSE <<>>)
                   \o (IF sep THEN <<Pair("range_separator", <<t[s]>>)>> ELSE <<>>)
                   \o (IF n2 > 0 THEN <<Pair("address", SubSeq(t, s + 1, s + n2))>>
                       ELSE <<>>),
         len |-> n1 + (IF sep THEN 1 ELSE 0) + n2]

\* '%', or a bare ';': a pair that is neither an address nor a separator
shorthand_range(t) == [pairs |-> <<Pair("shorthand", <<t[1]>>)>>, len |-> 1]

\* a ';' with no address on either side is a shorthand of its own in the
\* grammar and a separator as well: both readings are kept
GrammarReadings == {"separator", "shorthand"}

range_rule(t, reading) ==
    IF Len(t) > 0 /\ t[1] = "%" THEN shorthand_range(t)
    ELSE IF /\ reading = "shorthand"
            /\ Len(t) > 0
            /\ t[1] = ";"
            /\ general_range(t).len = 1
    THEN shorthand_range(t)
    ELSE general_range(t)

\* the locals of parse_range before its loop
RangeStart ==
    [address1 |-> Current, separator |-> "Comma", address2 |-> NoAddress,
     range_separator_present |-> FALSE, panic |-> FALSE]

\* one turn of the loop of parse_range; unwrap() on None panics
range_step(acc, pair) ==
    IF acc.panic THEN acc
    ELSE IF pair.rule = "address"
    THEN LET a == from_str(pair.text)
         IN  IF ~a.some THEN [acc EXCEPT !.panic = TRUE]
             ELSE IF acc.range_separator_present
             THEN [acc EXCEPT !.address2 = a.v]
             ELSE [acc EXCEPT !.address1 = a.v]
    ELSE IF pair.rule = "range_separator"
    THEN [acc EXCEPT !.range_separator_present = TRUE,
                     !.separator = IF pair.text = <<";">> THEN "Semicolon" ELSE @]
    ELSE acc

RECURSIVE range_loop(_, _)
range_loop(acc, pairs) ==
    IF pairs = <<>> THEN acc
    ELSE range_loop(range_step(acc, Head(pairs)), Tail(pairs))

RangePanic ==
    [res |-> "Panic", address1 |-> Current, range_sep |-> "Comma",
     address2 |-> NoAddress]

\* (variant) an address2 that was not written is address1, separator or not
parse_range_copies_address1(input, reading) ==
    LET acc == range_loop(RangeStart, range_rule(input, reading).pairs)
    IN  IF acc.panic THEN RangePanic
        ELSE [res |-> "Ok", address1 |-> acc.address1, range_sep |-> acc.separator,
              address2 |-> IF acc.address2 = NoAddress THEN acc.address1
                           ELSE acc.address2]

parse_range(input, reading) ==
    LET acc == range_loop(RangeStart, range_rule(input, reading).pairs)
    IN  IF acc.panic THEN RangePanic
        ELSE [res |-> "Ok", address1 |-> acc.address1, range_sep |-> acc.separator,
              address2 |-> IF acc.address2 = NoAddress /\ acc.range_separator_present
                           THEN Current
                           ELSE IF acc.address2 = NoAddress THEN acc.address1
                           ELSE acc.address2]

\* how many characters the rule command takes at position i
command_rule(t, i) ==
    IF i > Len(t) THEN 0
    ELSE IF t[i] = "w" /\ i + 1 <= Len(t) /\ t[i + 1] = "q" THEN 2
    ELSE IF t[i] \in VerbChars THEN 1
    ELSE 0

\* range [verb [argument]] and nothing left over
line_rule(t, reading) ==
    LET r == range_rule(t, reading).len
        v == command_rule(t, r + 1)
    IN  IF v = 0 /\ r < Len(t) THEN [ok |-> FALSE, pairs |-> <<>>]
        ELSE [ok |-> TRUE,
              pairs |-> <<Pair("range", SubSeq(t, 1, r))>>
                        \o (IF v > 0 THEN <<Pair("command", SubSeq(t, r + 1, r + v))>>
                            ELSE <<>>)
                        \o (IF r + v < Len(t)
                            THEN <<Pair("arg", SubSeq(t, r + v + 1, Len(t)))>>
                            ELSE <<>>)]

\* String::from(pair.as_str()) of a command pair
verb_of(text) == IF text = <<"w", "q">> THEN "wq" ELSE text[1]

\* the locals of parse_line before its loop
LineStart ==
    [address1 |-> Current, range_sep |-> "Comma", address2 |-> NoAddress,
     command |-> NoneStr, command_args |-> NoneStr, panic |-> FALSE]

line_step(acc, pair, reading) ==
    IF acc.panic THEN acc
    ELSE IF pair.rule = "range"
    THEN LET r == parse_range(pair.text, reading)
         IN  IF r.res = "Panic" THEN [acc EXCEPT !.panic = TRUE]
             ELSE [acc EXCEPT !.address1 = r.address1, !.range_sep = r.range_sep,
                              !.address2 = r.address2]
    ELSE IF pair.rule = "command"
    THEN [acc EXCEPT !.command = SomeStr(verb_of(pair.text))]
    ELSE IF pair.rule = "arg"
    THEN [acc EXCEPT !.command_args = [some |-> TRUE, v |-> pair.text]]
    ELSE acc

RECURSIVE line_loop(_, _, _)
line_loop(acc, pairs, reading) ==
    IF pairs = <<>> THEN acc
    ELSE line_loop(line_step(acc, Head(pairs), reading), Tail(pairs), reading)

parse_line(input, reading) ==
    LET m == line_rule(input, reading)
        acc == line_loop(LineStart, m.pairs, reading)
    IN  IF ~m.ok THEN [res |-> "ParseError", command |-> EdCommand_default]
        ELSE IF acc.panic THEN [res |-> "Panic", command |-> EdCommand_default]
        ELSE [res |-> "Ok",
              command |-> [address1 |-> acc.address1, address2 |-> acc.address2,
                           range_sep |-> acc.range_sep, command |-> acc.command,
                           command_args |-> acc.command_args]]

----------------------------------------------------------------------------
(* input_mode.rs: the terminal gives the lines typed, in order, and then   *)
(* an error of readline (Interrupted, Eof, or any other).                  *)

IsWhitespace(c) == c = " "

RECURSIVE trim_start(_)
trim_start(l) ==
    IF l # <<>> /\ IsWhitespace(Head(l)) THEN trim_start(Tail(l)) ELSE l

RECURSIVE trim_end(_)
trim_end(l) ==
    IF l # <<>> /\ IsWhitespace(l[Len(l)])
    THEN trim_end(SubSeq(l, 1, Len(l) - 1)) ELSE l

\* str::trim: without the whitespace it starts and ends with
trim(l) == trim_end(trim_start(l))

\* the loop of input_mode, with the lines still to come, the error that
\* follows them, and input_buffer
RECURSIVE input_loop(_, _, _)
input_loop(lines, end, input_buffer) ==
    IF lines = <<>>
    THEN IF end \in {"Interrupted", "Eof"}
         THEN [err |-> FALSE, lines |-> input_buffer]
         ELSE [err |-> TRUE, lines |-> <<>>]
    ELSE IF trim(Head(lines)) = <<".">>
    THEN [err |-> FALSE, lines |-> input_buffer]
    ELSE input_loop(Tail(lines), end, Append(input_buffer, Head(lines)))

input_mode(terminal) == input_loop(terminal.lines, terminal.end, <<>>)

----------------------------------------------------------------------------
(* main.rs: the REPL.  One action per verb: the loop reads a line, parses  *)
(* it to a command and hands it to command_runner; an error is reported    *)
(* and the loop goes on, Quit ends it, a panic aborts the process.         *)

VARIABLES
    buffer,     \* the LineBuffer: lines, filename, current_line
    status,     \* Running, Terminated, Failed (main returned an error), or
                \* Crashed after a panic
    pc,         \* where the loop is: at readline, or with command_runner returned
    command,    \* the EdCommand handed to command_runner
    env,        \* what the outside gave that command: input lines, I/O success
    old,        \* the buffer as it was when the command was handed over
    last,       \* what command_runner did with it
    index,      \* what address_to_index returned when called on its own
    typed       \* the text a parser or line-input mode was called on, or the
                \* characters of the file that was saved

vars == <<buffer, status, pc, command, env, old, last, index, typed>>

NoEnv == [input |-> NoInput, io_ok |-> TRUE]

\* no text is involved
NothingTyped == <<>>

\* nothing has run since the prompt
NothingRun ==
    [validated |-> FALSE, handler |-> "none", res |-> "None", out |-> <<>>,
     input |-> FALSE, written |-> NoneLines, path |-> NoneStr]

InitialBuffers ==
    {empty} \cup {from_file(LoadName, c) : c \in SeqsUpTo(LineTexts, MaxLines)}

Init ==
    /\ buffer \in InitialBuffers
    /\ status = "Running"
    /\ pc = "readline"
    /\ command = EdCommand_default
    /\ env = NoEnv
    /\ old = buffer
    /\ last = NothingRun
    /\ index = 0
    /\ typed = NothingTyped

Inputs == {[err |-> TRUE, lines |-> <<>>]}
          \cup {[err |-> FALSE, lines |-> l] : l \in SeqsUpTo(LineTexts, MaxInput)}

\* readline gave a line, parse_line gave a command with this verb, and
\* command_runner ran it to its end (or the process aborted on a panic)
\* (range_sep is carried by the command and read by no handler: both values
\* are tried with the verbs that take nothing else from outside)
Run(verb, seps, args, inputs, ios) ==
    /\ status = "Running"
    /\ pc = "readline"
    /\ \E a1 \in Addresses, a2 \in Addresses, sep \in seps,
          arg \in args, inp \in inputs, io \in ios :
          LET c == [address1 |-> a1, address2 |-> a2, range_sep |-> sep,
                    command |-> verb, command_args |-> arg]
              r == command_runner(buffer, c, inp, io)
          IN  /\ len(r.o.buffer) <= MaxLines
              /\ buffer' = r.o.buffer
              /\ status' = IF r.o.res = "Panic" THEN "Crashed" ELSE "Running"
              /\ pc' = "returned"
              /\ command' = c
              /\ env' = [input |-> inp, io_ok |-> io]
              /\ old' = buffer
              /\ last' = [validated |-> r.validated, handler |-> r.handler,
                          res |-> r.o.res, out |-> r.o.out, input |-> r.o.input,
                          written |-> r.o.written, path |-> r.o.path]
              /\ UNCHANGED <<index, typed>>

\* Ok(Continue), or Err(e): the error is reported and the loop goes on
LoopContinue ==
    /\ status = "Running"
    /\ pc = "returned"
    /\ last.res # "Quit"
    /\ pc' = "readline"
    /\ command' = EdCommand_default
    /\ env' = NoEnv
    /\ old' = buffer
    /\ last' = NothingRun
    /\ UNCHANGED <<buffer, status, index, typed>>

\* Ok(Quit): break
LoopBreak ==
    /\ status = "Running"
    /\ pc = "returned"
    /\ last.res = "Quit"
    /\ status' = "Terminated"
    /\ UNCHANGED <<buffer, pc, command, env, old, last, index, typed>>

\* the lines of at most one character typed at the prompt
ShortTexts == SeqsUpTo(TextChars, 1)

\* what parse_line returns for the lines it does not accept
ParseFailures ==
    {parse_line(l, reading).res :
        l \in ShortTexts, reading \in GrammarReadings} \ {"Ok"}

\* readline gave a line that parse_line returns an error for: the `?`
\* returns that error from main, and the process ends with it (or the
\* parser panicked and the process aborted)
ParseFails ==
    /\ status = "Running"
    /\ pc = "readline"
    /\ \E r \in ParseFailures :
          /\ last' = [NothingRun EXCEPT !.res = r]
          /\ status' = IF r = "Panic" THEN "Crashed" ELSE "Failed"
    /\ pc' = "exited"
    /\ UNCHANGED <<buffer, command, env, old, index, typed>>

\* what readline gives other than a line
ReadlineErrors == {"Interrupted", "Eof", "ReadError"}

\* readline gave Interrupted, Eof or another error: break
ReadlineEnds ==
    /\ status = "Running"
    /\ pc = "readline"
    /\ \E e \in ReadlineErrors : last' = [NothingRun EXCEPT !.res = e]
    /\ status' = "Terminated"
    /\ pc' = "exited"
    /\ UNCHANGED <<buffer, command, env, old, index, typed>>

NoArg == {NoneStr}
CommaOnly == {"Comma"}
FileArgs == {NoneStr, SomeStr(ArgName)}

CmdQuit == Run(SomeStr("q"), RangeSep, NoArg, {NoInput}, {TRUE})
CmdWrite == Run(SomeStr("w"), CommaOnly, FileArgs, {NoInput}, BOOLEAN)
CmdWriteQuit == Run(SomeStr("wq"), CommaOnly, FileArgs, {NoInput}, BOOLEAN)
CmdPrintLines == Run(SomeStr("p"), RangeSep, NoArg, {NoInput}, {TRUE})
CmdPrintNumbered == Run(SomeStr("n"), RangeSep, NoArg, {NoInput}, {TRUE})
CmdLineNumber == Run(SomeStr("="), RangeSep, NoArg, {NoInput}, {TRUE})
CmdInsert == Run(SomeStr("i"), CommaOnly, NoArg, Inputs, {TRUE})
CmdAppend == Run(SomeStr("a"), CommaOnly, NoArg, Inputs, {TRUE})
CmdCorrect == Run(SomeStr("c"), CommaOnly, NoArg, Inputs, {TRUE})
CmdDelete == Run(SomeStr("d"), RangeSep, NoArg, {NoInput}, {TRUE})
CmdUnrecognized == Run(SomeStr("x"), RangeSep, NoArg, {NoInput}, {TRUE})
CmdNoVerb == Run(NoneStr, RangeSep, NoArg, {NoInput}, {TRUE})

Next ==
    \/ CmdQuit
    \/ CmdWrite
    \/ CmdWriteQuit
    \/ CmdPrintLines
    \/ CmdPrintNumbered
    \/ CmdLineNumber
    \/ CmdInsert
    \/ CmdAppend
    \/ CmdCorrect
    \/ CmdDelete
    \/ CmdUnrecognized
    \/ CmdNoVerb
    \/ LoopContinue
    \/ LoopBreak
    \/ ParseFails
    \/ ReadlineEnds

Spec == Init /\ [][Next]_vars

----------------------------------------------------------------------------
(* address_to_index called on its own, as the unit tests call it: on any   *)
(* buffer, with any cursor (also one left beyond the end), and any         *)
(* address, the None sentinel and a huge line number included.             *)

\* Address::Absolute(1000) of rstest_address_to_index
HugeLine == 1000

\* the furthest a handler can leave the cursor: index2 + collected lines
MaxCursor == MaxLines + MaxInput

AnyAddresses == Addresses \cup {NoAddress, Absolute(HugeLine)}

AnyBuffers ==
    {[lines |-> l, filename |-> NoneStr, current_line |-> k] :
        l \in {NoneLines} \cup {SomeLines(v) : v \in SeqsUpTo(LineTexts, MaxLines)},
        k \in 0..MaxCursor}

InitIndex ==
    /\ buffer \in AnyBuffers
    /\ status = "Running"
    /\ pc = "call"
    /\ command \in {[EdCommand_default EXCEPT !.address2 = a] : a \in AnyAddresses}
    /\ env = NoEnv
    /\ old = buffer
    /\ last = NothingRun
    /\ index = 0
    /\ typed = NothingTyped

ResolveAddress ==
    /\ pc = "call"
    /\ index' = address_to_index(command.address2, buffer)
    /\ pc' = "resolved"
    /\ UNCHANGED <<buffer, status, command, env, old, last, typed>>

NextIndex == ResolveAddress

SpecIndex == InitIndex /\ [][NextIndex]_vars

----------------------------------------------------------------------------
(* print and print_with_numbers called on their own, as the unit tests    *)
(* call them: any buffer and any pair of addresses, no validate_range     *)
(* before the call.                                                        *)

InitPrint ==
    /\ buffer \in AnyBuffers
    /\ status = "Running"
    /\ pc = "call"
    /\ command \in {[EdCommand_default EXCEPT !.address1 = a, !.address2 = b] :
                        a \in AnyAddresses, b \in AnyAddresses}
    /\ env = NoEnv
    /\ old = buffer
    /\ last = NothingRun
    /\ index = 0
    /\ typed = NothingTyped

\* the call returns: what the handler gave back, and the buffer it left
Returned(handler, o) ==
    /\ buffer' = o.buffer
    /\ last' = [validated |-> FALSE, handler |-> handler, res |-> o.res,
                out |-> o.out, input |-> o.input, written |-> o.written,
                path |-> o.path]
    /\ UNCHANGED <<status, command, env, old, index, typed>>

CallPrint ==
    /\ pc = "call"
    /\ pc' = "printed"
    /\ Returned("print", print(buffer, command))

CallPrintWithNumbers ==
    /\ pc = "call"
    /\ pc' = "numbered"
    /\ Returned("print_with_numbers", print_with_numbers(buffer, command))

NextPrint == CallPrint \/ CallPrintWithNumbers

SpecPrint == InitPrint /\ [][NextPrint]_vars

----------------------------------------------------------------------------
(* parse_range and parse_line called on their own, as the unit tests call *)
(* them, on every text of at most MaxText characters.                     *)

TypedTexts == SeqsUpTo(TextChars, MaxText)

InitParse ==
    /\ buffer = empty
    /\ status = "Running"
    /\ pc = "call"
    /\ command = EdCommand_default
    /\ env = NoEnv
    /\ old = buffer
    /\ last = NothingRun
    /\ index = 0
    /\ typed \in TypedTexts

\* the call returns (or panics): the result, and the reading of the grammar
Parsed(reading, res, c) ==
    /\ command' = c
    /\ last' = [NothingRun EXCEPT !.handler = reading, !.res = res]
    /\ status' = IF res = "Panic" THEN "Crashed" ELSE "Running"
    /\ UNCHANGED <<buffer, env, old, index, typed>>

CallParseRange ==
    /\ pc = "call"
    /\ pc' = "range"
    /\ \E reading \in GrammarReadings :
          LET r == parse_range(typed, reading)
          IN  Parsed(reading, r.res,
                     [EdCommand_default EXCEPT !.address1 = r.address1,
                                               !.range_sep = r.range_sep,
                                               !.address2 = r.address2])

CallParseLine ==
    /\ pc = "call"
    /\ pc' = "line"
    /\ \E reading \in GrammarReadings :
          LET r == parse_line(typed, reading)
          IN  Parsed(reading, r.res, r.command)

NextParse == CallParseRange \/ CallParseLine

SpecParse == InitParse /\ [][NextParse]_vars

----------------------------------------------------------------------------
(* save and then from_file on the same path, as test_file_save does, with *)
(* lines that are sequences of characters.                                *)

\* the longest line, and the most lines, of a buffer that is saved
MaxChars == 2
MaxSaved == 2

LineChars == {"a", "\r"}
CharLines == SeqsUpTo(LineChars, MaxChars)

SavedBuffers ==
    {[lines |-> l, filename |-> n, current_line |-> k] :
        l \in {NoneLines} \cup {SomeLines(v) : v \in SeqsUpTo(CharLines, MaxSaved)},
        n \in {NoneStr, SomeStr(LoadName)},
        k \in {0, 1}}

InitFile ==
    /\ buffer \in SavedBuffers
    /\ status = "Running"
    /\ pc = "call"
    /\ command = EdCommand_default
    /\ env = NoEnv
    /\ old = buffer
    /\ last = NothingRun
    /\ index = 0
    /\ typed = NothingTyped

\* buff.save(Some(out_filename)): the file now holds the lines written
CallSave ==
    /\ pc = "call"
    /\ LET s == save(buffer, SomeStr(ArgName), TRUE)
       IN  /\ buffer' = s.buffer
           /\ last' = [NothingRun EXCEPT !.handler = "save", !.res = s.res,
                                         !.written = s.written, !.path = s.path]
           /\ typed' = file_contents(s.written.v)
    /\ pc' = "saved"
    /\ UNCHANGED <<status, command, env, old, index>>

\* LineBuffer::from_file(out_filename)
CallFromFile ==
    /\ pc = "saved"
    /\ buffer' = from_file(last.path.v, read_lines(typed, <<>>))
    /\ pc' = "loaded"
    /\ UNCHANGED <<status, command, env, old, last, index, typed>>

NextFile == CallSave \/ CallFromFile

SpecFile == InitFile /\ [][NextFile]_vars

----------------------------------------------------------------------------
(* input_mode called on its own: at most MaxInput lines of at most        *)
(* MaxChars characters are typed before readline gives an error.          *)

InputChars == {"a", ".", " "}
TypedLines == SeqsUpTo(InputChars, MaxChars)

Terminals ==
    {[lines |-> l, end |-> e] :
        l \in SeqsUpTo(TypedLines, MaxInput), e \in ReadlineErrors}

InitInput ==
    /\ buffer = empty
    /\ status = "Running"
    /\ pc = "call"
    /\ command = EdCommand_default
    /\ env = NoEnv
    /\ old = buffer
    /\ last = NothingRun
    /\ index = 0
    /\ typed \in Terminals

CallInputMode ==
    /\ pc = "call"
    /\ LET r == input_mode(typed)
       IN  /\ env' = [input |-> r, io_ok |-> TRUE]
           /\ last' = [NothingRun EXCEPT
                          !.handler = "input_mode",
                          !.res = IF r.err THEN "InputModeError" ELSE "Ok",
                          !.input = TRUE]
    /\ pc' = "collected"
    /\ UNCHANGED <<buffer, status, command, old, index, typed>>

NextInput == CallInputMode

SpecInput == InitInput /\ [][NextInput]_vars

----------------------------------------------------------------------------
(* i, a and c run by command_runner on an empty or freshly loaded buffer, *)
(* with line-input mode reading from a terminal: the lines are sequences  *)
(* of characters, as input_mode reads them.                               *)

\* the lines of the file that was loaded
FileLines == {<<"a">>, <<"b">>}
\* the lines typed in line-input mode
KeyedLines == {<<"a">>, <<".">>}

EditedBuffers ==
    {empty} \cup {from_file(LoadName, c) : c \in SeqsUpTo(FileLines, MaxLines)}

EditTerminals ==
    {[lines |-> l, end |-> e] :
        l \in SeqsUpTo(KeyedLines, MaxInput), e \in ReadlineErrors}

InitEdit ==
    /\ buffer \in EditedBuffers
    /\ status = "Running"
    /\ pc = "readline"
    /\ command = EdCommand_default
    /\ env = NoEnv
    /\ old = buffer
    /\ last = NothingRun
    /\ index = 0
    /\ typed \in EditTerminals

\* command_runner runs the verb; its handler calls input_mode, which reads
\* the terminal
RunEdit(verb) ==
    /\ status = "Running"
    /\ pc = "readline"
    /\ \E a1 \in Addresses, a2 \in Addresses :
          LET c == [EdCommand_default EXCEPT !.address1 = a1, !.address2 = a2,
                                             !.command = SomeStr(verb)]
              inp == input_mode(typed)
              r == command_runner(buffer, c, inp, TRUE)
          IN  /\ buffer' = r.o.buffer
              /\ status' = IF r.o.res = "Panic" THEN "Crashed" ELSE "Running"
              /\ pc' = "returned"
              /\ command' = c
              /\ env' = [input |-> inp, io_ok |-> TRUE]
              /\ last' = [validated |-> r.validated, handler |-> r.handler,
                          res |-> r.o.res, out |-> r.o.out, input |-> r.o.input,
                          written |-> r.o.written, path |-> r.o.path]
              /\ UNCHANGED <<old, index, typed>>

EditInsert == RunEdit("i")
EditAppend == RunEdit("a")
EditCorrect == RunEdit("c")

NextEdit == EditInsert \/ EditAppend \/ EditCorrect

SpecEdit == InitEdit /\ [][NextEdit]_vars

----------------------------------------------------------------------------
(* Vocabulary of the properties: a command has just been run, on the       *)
(* buffer old, and command_runner has returned (or the process aborted).   *)

Ran == pc = "returned"

Min(a, b) == IF a <= b THEN a ELSE b
Max(a, b) == IF a >= b THEN a ELSE b

\* the length the command found, and the cursor once repaired
Length == len(old)
Repaired == Min(old.current_line, Length)

\* the 1-indexed line an address of the command denotes
Resolved(address) ==
    CASE address.tag = "Absolute" -> address.n
      [] address.tag = "Last" -> Length
      [] OTHER -> Repaired

R1 == Resolved(command.address1)
R2 == Resolved(command.address2)

Verb(v) == command.command = SomeStr(v)
Collected == env.input.lines

\* the command addressed lines that exist: 1 <= address1 <= address2 <= length
InRange == 1 <= R1 /\ R1 <= R2 /\ R2 <= Length

Rejections == {"InvalidRange", "EmptyBuffer", "NoFilename"}

----------------------------------------------------------------------------
\* C1 (as stated): a command rejected with InvalidRange, EmptyBuffer or the
\* missing-filename error leaves lines and current_line exactly as they were,
\* also when an earlier command left current_line above the buffer length.
C1_RejectedLeavesBufferExactly ==
    (Ran /\ last.res \in Rejections)
        => (buffer.lines = old.lines /\ buffer.current_line = old.current_line)

\* C1 (amended): a rejected command leaves lines as they were, and leaves
\* current_line as it was unless it was above the buffer length, in which
\* case the repair at the head of validate_range has set it to the length.
C1_RejectedLeavesLinesAndRepairedCursor ==
    (Ran /\ last.res \in Rejections)
        => (buffer.lines = old.lines /\ buffer.current_line = Repaired)

\* a command is rejected while the cursor is parked beyond the end
C1_Witness ==
    Ran /\ last.res \in Rejections /\ old.current_line > Length

\* C2: validate_range fails exactly when the resolved address1 exceeds the
\* resolved address2 or one of them exceeds the length (Current resolving to
\* the cursor validate_range reads, Last to the length); so Absolute(0)
\* passes and Absolute(length + 1) does not.
C2_ValidateRangeIff ==
    Ran => (~last.validated <=> (R1 > R2 \/ R1 > Length \/ R2 > Length))

\* a range in order, from line 0, is refused only for ending past the end
C2_Witness ==
    /\ Ran
    /\ ~last.validated
    /\ command.address1 = Absolute(0)
    /\ command.address2 = Absolute(Length + 1)

\* C3: validation comes before the dispatch of every verb: when it fails no
\* handler runs, nothing is saved, Quit is not returned, line-input mode is
\* not entered and lines are not modified.
C3_NoHandlerAfterFailedValidation ==
    (Ran /\ (R1 > R2 \/ R1 > Length \/ R2 > Length))
        => /\ last.handler = "none"
           /\ last.res = "InvalidRange"
           /\ ~last.written.some
           /\ ~last.input
           /\ last.out = <<>>
           /\ buffer.lines = old.lines
           /\ buffer.filename = old.filename

\* q itself is refused for a bad range
C3_Witness ==
    Ran /\ Verb("q") /\ R1 > R2 /\ last.res = "InvalidRange"

----------------------------------------------------------------------------
(* address_to_index on its own (SpecIndex) *)

Resolving == pc = "resolved"
Target == command.address2

\* the line an address denotes before any clamp
Raw ==
    CASE Target.tag = "Absolute" -> Target.n
      [] Target.tag = "Last" -> len(buffer)
      [] OTHER -> buffer.current_line

\* C4: address_to_index is the reference clamp: with raw = n for
\* Absolute(n), the length for Last and the cursor for Current and None, it
\* is length - 1 when raw >= length and raw - 1 otherwise, both saturating
\* at 0.  So Absolute(n) gives n - 1 for n in 1..length, Absolute(0) gives 0,
\* n > length gives length - 1, and the result lies in 0..max(length - 1, 0).
C4_AddressToIndexIsClamp ==
    Resolving =>
        /\ index = IF Raw >= len(buffer)
                   THEN Max(len(buffer) - 1, 0)
                   ELSE Max(Raw - 1, 0)
        /\ (Target.tag = "Absolute" /\ 1 <= Target.n /\ Target.n <= len(buffer))
              => index = Target.n - 1
        /\ Target = Absolute(0) => index = 0
        /\ (Target.tag = "Absolute" /\ Target.n > len(buffer) /\ len(buffer) > 0)
              => index = len(buffer) - 1
        /\ index >= 0
        /\ index <= Max(len(buffer) - 1, 0)

\* a huge line number resolved on a buffer that has lines
C4_Witness ==
    /\ Resolving
    /\ Target = Absolute(HugeLine)
    /\ len(buffer) = MaxLines
    /\ index = MaxLines - 1

----------------------------------------------------------------------------
(* d and c (Spec) *)

\* C5: a successful d on lines that exist removes exactly the addressed
\* lines, keeps every other line in order, and leaves the cursor on the
\* 0-based index of address1, the start of the deleted range.
C5_DeleteRemovesRange ==
    (Ran /\ Verb("d") /\ last.res = "Continue" /\ InRange)
        => /\ buffer.lines =
                SomeLines(SubSeq(old.lines.v, 1, R1 - 1)
                          \o SubSeq(old.lines.v, R2 + 1, Length))
           /\ buffer.current_line = R1 - 1

\* a range of two lines is deleted from the end of a longer buffer
C5_Witness ==
    /\ Ran /\ Verb("d") /\ last.res = "Continue"
    /\ R1 = 2 /\ R2 = 3 /\ Length = 3
    /\ buffer.current_line = 1

\* C6 (as stated): d with address1 = Absolute(0) always fails with
\* InvalidRange and leaves lines and current_line unchanged, whatever the
\* buffer and address2.
C6_DeleteZeroLeavesBufferExactly ==
    (Ran /\ Verb("d") /\ command.address1 = Absolute(0))
        => /\ last.res = "InvalidRange"
           /\ buffer.lines = old.lines
           /\ buffer.current_line = old.current_line

\* C6 (amended): d with address1 = Absolute(0) always fails with
\* InvalidRange and leaves lines unchanged; current_line is unchanged unless
\* it was above the buffer length, in which case validate_range has set it
\* to the length.
C6_DeleteZeroRejected ==
    (Ran /\ Verb("d") /\ command.address1 = Absolute(0))
        => /\ last.res = "InvalidRange"
           /\ buffer.lines = old.lines
           /\ buffer.current_line = Repaired

\* 0,$d reaches the handler on a buffer with lines and is refused there
C6_Witness ==
    /\ Ran /\ Verb("d") /\ command.address1 = Absolute(0)
    /\ command.address2 = Last /\ Length > 0
    /\ last.handler = "d" /\ last.res = "InvalidRange"

\* C7: d on a buffer with no lines (absent, or an empty sequence), with
\* addresses that pass validation and are not line 0, fails with EmptyBuffer
\* and leaves the lines as they were.
C7_DeleteOnNoLinesIsEmptyBuffer ==
    (Ran /\ Verb("d") /\ Length = 0 /\ command.address1 # Absolute(0)
         /\ R1 <= R2 /\ R2 <= Length)
        => (last.res = "EmptyBuffer" /\ buffer.lines = old.lines)

\* C8: a successful c on lines that exist replaces exactly the addressed
\* lines with the collected ones: lines = old[0 .. i1) ++ collected ++
\* old(i2 .. end], and the length is old length - (i2 - i1 + 1) + n.
C8_CorrectReplacesRange ==
    (Ran /\ Verb("c") /\ last.res = "Continue" /\ InRange)
        => /\ buffer.lines =
                SomeLines(SubSeq(old.lines.v, 1, R1 - 1) \o Collected
                          \o SubSeq(old.lines.v, R2 + 1, Length))
           /\ len(buffer) = Length - (R2 - R1 + 1) + Len(Collected)

\* two lines are replaced by one, a line before them staying in place
C8_Witness ==
    /\ Ran /\ Verb("c") /\ last.res = "Continue"
    /\ R1 = 2 /\ R2 = 3 /\ Length = 3 /\ Len(Collected) = 1
    /\ len(buffer) = 2

\* C9: after a successful c the cursor is the 1-indexed number of the last
\* inserted line, the resolved index of address1 plus the number of
\* collected lines, for ranges of any size; so it is at most the new length.
C9_CorrectCursorAtEndOfBlock ==
    (Ran /\ Verb("c") /\ last.res = "Continue" /\ InRange)
        => /\ buffer.current_line = (R1 - 1) + Len(Collected)
           /\ buffer.current_line <= len(buffer)

\* C10: c with address1 = Absolute(0) is rejected with InvalidRange before
\* line-input mode is entered, and the lines are unchanged.
C10_CorrectZeroIsInvalidRange ==
    (Ran /\ Verb("c") /\ command.address1 = Absolute(0))
        => /\ last.res = "InvalidRange"
           /\ ~last.input
           /\ buffer.lines = old.lines

----------------------------------------------------------------------------
(* i and a (Spec) *)

\* the first n elements of a sequence, and the rest
Take(v, n) == SubSeq(v, 1, Min(n, Len(v)))
Drop(v, n) == SubSeq(v, Min(n, Len(v)) + 1, Len(v))

\* the 0-based index of the line address2 denotes, in a validated command
K2 == Max(R2 - 1, 0)

\* the lines of old, the empty sequence when they are absent
OldLines == old.lines.v

\* C11: i splices the n collected lines before the 0-based index k of
\* address2: lines becomes old[0 .. k) ++ collected ++ old[k .. end], every
\* old line is kept in order, and current_line = k + n.
C11_InsertSplicesBefore ==
    (Ran /\ Verb("i") /\ last.res = "Continue")
        => /\ buffer.lines =
                SomeLines(Take(OldLines, K2) \o Collected \o Drop(OldLines, K2))
           /\ buffer.current_line = K2 + Len(Collected)

\* one line is inserted before line 2 of 2
C11_Witness ==
    /\ Ran /\ Verb("i") /\ last.res = "Continue"
    /\ Length = 2 /\ command.address2 = Absolute(2) /\ Len(Collected) = 1
    /\ buffer.lines.v[2] = Collected[1]
    /\ buffer.current_line = 2

\* where a puts the lines: after index k, at the front for Absolute(0)
AppendAt == IF command.address2 = Absolute(0) THEN 0 ELSE K2 + 1

\* the command passes validation and line-input mode hands lines back
Accepted == R1 <= R2 /\ R2 <= Length /\ ~env.input.err

\* C12: a splices the n collected lines after the 0-based index k of
\* address2, at position k + 1, and at position 0 when address2 is
\* Absolute(0); every old line is kept in order and current_line is the
\* splice position plus n.
C12_AppendAlwaysSplices ==
    (Ran /\ Verb("a") /\ Accepted)
        => /\ last.res = "Continue"
           /\ buffer.lines =
                SomeLines(Take(OldLines, AppendAt) \o Collected
                          \o Drop(OldLines, AppendAt))
           /\ buffer.current_line = AppendAt + Len(Collected)

\* (what does hold) every a that returns Continue has spliced the lines so
C12_AppendSplicesAfter ==
    (Ran /\ Verb("a") /\ last.res = "Continue")
        => /\ buffer.lines =
                SomeLines(Take(OldLines, AppendAt) \o Collected
                          \o Drop(OldLines, AppendAt))
           /\ buffer.current_line = AppendAt + Len(Collected)

\* a line appended at 0 becomes the first line of a buffer that has lines
C12_Witness ==
    /\ Ran /\ Verb("a") /\ last.res = "Continue"
    /\ command.address2 = Absolute(0) /\ Length = 2 /\ Len(Collected) = 1
    /\ buffer.lines.v[1] = Collected[1]
    /\ buffer.current_line = 1

----------------------------------------------------------------------------
(* p and n called on their own (SpecPrint) *)

Printed == pc = "printed"
Numbered == pc = "numbered"

\* the 0-based indices the two addresses resolve to
Low == Max(Min(R1, Length) - 1, 0)
High == Max(Min(R2, Length) - 1, 0)

\* C13: p fails with EmptyBuffer on a buffer without lines and with
\* InvalidRange when low > high; otherwise it returns Continue and its
\* output is the lines at the 0-based indices low..high, in buffer order,
\* one per output line, low and high being the resolved indices of
\* address1 and address2.  The buffer is as it was.
C13_PrintOutputsRange ==
    Printed =>
        /\ buffer = old
        /\ last.res = IF Length = 0 THEN "EmptyBuffer"
                      ELSE IF Low > High THEN "InvalidRange"
                      ELSE "Continue"
        /\ last.res = "Continue"
              => /\ Len(last.out) = High - Low + 1
                 /\ \A k \in 1..Len(last.out) : last.out[k] = OldLines[Low + k]
        /\ last.res # "Continue" => last.out = <<>>

\* both lines of a buffer of two printed, in buffer order
C13_Witness ==
    /\ Printed
    /\ OldLines = <<"a", "b">>
    /\ command.address1 = Absolute(1)
    /\ command.address2 = Last
    /\ last.res = "Continue"
    /\ last.out = <<"a", "b">>

\* an inverted pair of addresses is refused by p itself
C13_WitnessInvalidRange ==
    /\ Printed
    /\ Length = 3
    /\ command.address1 = Absolute(3)
    /\ command.address2 = Absolute(1)
    /\ last.res = "InvalidRange"

\* what p gives on the buffer and the addresses that n was called with
SameCallToPrint == print(old, command)

\* C14: on every buffer and pair of addresses n does what p does (the same
\* EmptyBuffer and InvalidRange outcomes, the same Continue, the same lines
\* in the same order, the buffer as it was), except that each line it
\* prints is prefixed with its 1-indexed line number, 0-based index + 1,
\* right-aligned in a field of four and followed by a tab.
C14_NumberedIsPrintWithPrefix ==
    Numbered =>
        /\ buffer = SameCallToPrint.buffer
        /\ last.res = SameCallToPrint.res
        /\ Len(last.out) = Len(SameCallToPrint.out)
        /\ \A k \in 1..Len(last.out) :
              last.out[k] = right_align4(Low + k) \o "\t" \o SameCallToPrint.out[k]

\* lines 2 and 3 of a buffer of three, numbered 2 and 3
C14_Witness ==
    /\ Numbered
    /\ OldLines = <<"a", "b", "a">>
    /\ command.address1 = Absolute(2)
    /\ command.address2 = Absolute(3)
    /\ last.res = "Continue"
    /\ last.out = <<"   2\tb", "   3\ta">>

----------------------------------------------------------------------------
(* =, q, w and wq (Spec) *)

\* = typed again with no address, on the buffer the command left
LineNumberAgain ==
    command_runner(buffer, [EdCommand_default EXCEPT !.command = SomeStr("=")],
                   NoInput, TRUE)

\* C15: = resolves address2 to a 0-based index, sets current_line to
\* index + 1, prints that value and returns Continue; lines and the file
\* name are as they were, and = run again with the default address gives
\* the same cursor.
C15_LineNumberSetsCursor ==
    (Ran /\ Verb("=") /\ Accepted)
        => /\ last.res = "Continue"
           /\ buffer.current_line = K2 + 1
           /\ last.out = <<ToString(K2 + 1)>>
           /\ buffer.lines = old.lines
           /\ buffer.filename = old.filename
           /\ LineNumberAgain.o.res = "Continue"
           /\ LineNumberAgain.o.buffer = buffer

\* 2= on a buffer of three lines whose cursor was on line 3
C15_Witness ==
    /\ Ran
    /\ Verb("=")
    /\ Length = 3
    /\ old.current_line = 3
    /\ command.address2 = Absolute(2)
    /\ last.res = "Continue"
    /\ buffer.current_line = 2
    /\ last.out = <<"2">>

\* the loop reads a line and runs it, whatever the line
AnyCommand ==
    \E verb \in {NoneStr} \cup {SomeStr(v) : v \in Verbs} :
        Run(verb, RangeSep, FileArgs, Inputs, BOOLEAN)

\* C16: q returns Quit and leaves lines and the file name as they were, on
\* any buffer, a never-loaded one included (q typed without addresses is
\* never rejected); once Quit is returned the loop can only break, and
\* after it has broken nothing is read or run any more.
C16_QuitEndsTheLoop ==
    /\ (Ran /\ Verb("q") /\ Accepted)
          => /\ last.res = "Quit"
             /\ buffer.lines = old.lines
             /\ buffer.filename = old.filename
    /\ (Ran /\ Verb("q") /\ command.address1 = Current /\ command.address2 = Current)
          => last.res = "Quit"
    /\ (Ran /\ last.res = "Quit" /\ status = "Running")
          => /\ ENABLED LoopBreak
             /\ ~ENABLED LoopContinue
             /\ ~ENABLED AnyCommand
    /\ status = "Terminated"
          => /\ last.res \in {"Quit"} \cup ReadlineErrors
             /\ ~ENABLED Next
             /\ ~ENABLED AnyCommand

\* q on a never-loaded buffer has ended the loop
C16_Witness ==
    /\ status = "Terminated"
    /\ Verb("q")
    /\ old = empty
    /\ buffer = empty
    /\ last.res = "Quit"

\* the file a save is aimed at: the argument, else the remembered name
SaveTarget == IF command.command_args.some THEN command.command_args
              ELSE old.filename
SaveSucceeds == SaveTarget.some /\ env.io_ok

\* w typed in place of wq: same addresses, same argument, same file system
WriteInstead ==
    command_runner(old, [command EXCEPT !.command = SomeStr("w")],
                   NoInput, env.io_ok).o

\* C17: wq saves as w does (same file, same lines written, same buffer
\* left behind) and returns Quit exactly when the save succeeded; when it
\* failed (no file name known, or an I/O failure) the error is returned in
\* place of Quit and the loop goes on.
C17_WriteQuitQuitsOnlyAfterSave ==
    (Ran /\ Verb("wq") /\ Accepted)
        => /\ buffer = WriteInstead.buffer
           /\ last.written = WriteInstead.written
           /\ last.path = WriteInstead.path
           /\ last.res = "Quit" <=> WriteInstead.res = "Continue"
           /\ last.res = "Quit" <=> SaveSucceeds
           /\ SaveSucceeds => last.written = SomeLines(OldLines) /\ last.path = SaveTarget
           /\ ~SaveSucceeds
                 => /\ last.res = WriteInstead.res
                    /\ last.res = IF SaveTarget.some THEN "IoError" ELSE "NoFilename"
                    /\ last.written = NoneLines
                    /\ status = "Running"
                    /\ ENABLED LoopContinue
                    /\ ~ENABLED LoopBreak

\* wq g where g cannot be created: an I/O error, and the loop goes on
C17_Witness ==
    /\ Ran
    /\ Verb("wq")
    /\ command.command_args = SomeStr(ArgName)
    /\ ~env.io_ok
    /\ Length = 2
    /\ last.res = "IoError"
    /\ status = "Running"

\* wq with a remembered name has saved and ended the loop
C17_WitnessQuit ==
    /\ status = "Terminated"
    /\ Verb("wq")
    /\ ~command.command_args.some
    /\ last.path = SomeStr(LoadName)
    /\ last.written = SomeLines(<<"a", "b">>)

\* w typed with no file name on a buffer that remembers none
WriteNowhere ==
    Ran /\ Verb("w") /\ Accepted /\ ~command.command_args.some /\ ~old.filename.some

\* C18 (as stated): w with no argument on a buffer without a remembered
\* file name fails with the missing-filename error: no file is created or
\* written, the result is an error, and the buffer is unchanged.
C18_MissingFilenameLeavesBufferExactly ==
    WriteNowhere
        => /\ last.res = "NoFilename"
           /\ last.written = NoneLines
           /\ last.path = NoneStr
           /\ buffer = old

\* C18 (amended): w with no argument on a buffer without a remembered file
\* name fails with the missing-filename error: no file is created or
\* written, the result is an error, lines and file name are unchanged, and
\* current_line is unchanged except that a cursor beyond the last line has
\* been brought back to the length at the start of the command.
C18_MissingFilenameLeavesLinesAndRepairedCursor ==
    WriteNowhere
        => /\ last.res = "NoFilename"
           /\ last.written = NoneLines
           /\ last.path = NoneStr
           /\ buffer = [old EXCEPT !.current_line = Repaired]

\* w on a never-loaded buffer whose cursor = had set to 1
C18_Witness ==
    /\ WriteNowhere
    /\ Length = 0
    /\ old.current_line = 1
    /\ last.res = "NoFilename"
    /\ buffer.current_line = 0

Saving == Verb("w") \/ Verb("wq")
Wrote == Ran /\ Verb("w") /\ Accepted /\ last.res = "Continue"

\* w, and wq, typed with no file name on the buffer the command left,
\* the file system accepting the write
WriteAgain(verb) ==
    command_runner(buffer, [EdCommand_default EXCEPT !.command = SomeStr(verb)],
                   NoInput, TRUE).o

\* what a successful w does to the file and to the remembered name
WroteToTarget ==
    /\ last.written = SomeLines(OldLines)
    /\ last.path = SaveTarget
    /\ buffer.filename = SaveTarget
    /\ WriteAgain("w").path = SaveTarget
    /\ WriteAgain("wq").path = SaveTarget

C19_WitnessCursor ==
    /\ Wrote
    /\ command.command_args = SomeStr(ArgName)
    /\ old.current_line > Length
    /\ buffer.current_line = Length

\* C20: the file name becomes the explicit path only when the save
\* succeeded: after a w or wq with an explicit path that failed with an I/O
\* error the file name is what it was, so a later w without an argument
\* still goes to the file remembered before (or still fails for want of a
\* file name when none was remembered).
C20_FailedSaveKeepsFileName ==
    (Ran /\ Saving /\ Accepted /\ command.command_args.some /\ last.res = "IoError")
        => /\ buffer.filename = old.filename
           /\ WriteAgain("w").path = old.filename
           /\ ~old.filename.some => WriteAgain("w").res = "NoFilename"

----------------------------------------------------------------------------
(* the range separator (Spec) *)

\* n; typed before a verb, n a line of the buffer: address2 is the cursor
SemicolonRange ==
    /\ Ran
    /\ command.range_sep = "Semicolon"
    /\ command.address1.tag = "Absolute"
    /\ 1 <= command.address1.n
    /\ command.address1.n <= Length
    /\ command.address2 = Current

\* C21: with the Semicolon separator the cursor is set to address1's line
\* before address2 is resolved, so that a Current address2 denotes
\* address1's line: `3;` is the range 3..3 wherever the cursor was, and is
\* accepted (p prints that one line, = leaves the cursor on it).  With the
\* Comma separator the cursor is not moved by range resolution.
C21_SemicolonSetsCursorFirst ==
    SemicolonRange
        => /\ last.validated
           /\ Verb("p") => last.out = <<OldLines[command.address1.n]>>
           /\ Verb("=") => buffer.current_line = command.address1.n

----------------------------------------------------------------------------
(* verbs that no handler takes (Spec) *)

NoKnownVerb == ~command.command.some \/ command.command.v \notin KnownVerbs

\* C28: a command whose verb is unrecognized or absent and whose range
\* passes validation is a no-op that returns Continue: nothing is printed,
\* read or written, lines and file name are unchanged, and so is
\* current_line apart from the clamp at the start of the command.
C28_UnknownVerbIsNoOp ==
    (Ran /\ NoKnownVerb /\ Accepted)
        => /\ last.res = "Continue"
           /\ last.handler = "noop"
           /\ last.out = <<>>
           /\ ~last.input
           /\ last.written = NoneLines
           /\ buffer = [old EXCEPT !.current_line = Repaired]
           /\ ENABLED LoopContinue

\* 1,$x on a buffer of two lines whose cursor was beyond the end
C28_Witness ==
    /\ Ran
    /\ Verb("x")
    /\ command.address1 = Absolute(1)
    /\ command.address2 = Last
    /\ Length = 2
    /\ old.current_line > Length
    /\ last.res = "Continue"
    /\ buffer.lines = old.lines
    /\ buffer.current_line = 2

\* a line with a range and no verb at all
C28_WitnessNoVerb ==
    /\ Ran
    /\ ~command.command.some
    /\ command.address2 = Last
    /\ Length = 3
    /\ last.res = "Continue"
    /\ buffer = old

----------------------------------------------------------------------------
(* the parser called on its own (SpecParse) *)

RangeParsed == pc = "range"
LineParsed == pc = "line"

\* the three parts of a parsed range
ParsedRange == <<command.address1, command.range_sep, command.address2>>

\* C22: parsing the range shorthand % always yields address1 =
\* Absolute(1), separator Comma, address2 = Last: all lines.
C22_PercentIsAllLines ==
    (RangeParsed /\ typed = <<"%">>)
        => /\ last.res = "Ok"
           /\ ParsedRange = <<Absolute(1), "Comma", Last>>

\* C23: parsing a bare ; with nothing else yields address1 = Current,
\* separator Semicolon, address2 = Last: the current line through the end.
C23_BareSemicolonIsCurrentToLast ==
    (RangeParsed /\ typed = <<";">>)
        => /\ last.res = "Ok"
           /\ ParsedRange = <<Current, "Semicolon", Last>>

\* the value of a run of digits, read from the left
RECURSIVE NumberOf(_, _)
NumberOf(t, sofar) ==
    IF t = <<>> THEN sofar
    ELSE NumberOf(Tail(t), 10 * sofar + (IF Head(t) = "5" THEN 5 ELSE 0))

\* the address tokens and the address each denotes; no token is the empty
\* text, which stands for an address that was not written
Written ==
    {[text |-> <<".">>, address |-> Current], [text |-> <<"$">>, address |-> Last]}
    \cup {[text |-> d, address |-> Absolute(NumberOf(d, 0))] :
             d \in SeqsUpTo(DigitChars, MaxText) \ {<<>>}}
NotWritten == [text |-> <<>>, address |-> NoAddress]
OptionalAddress == Written \cup {NotWritten}
OptionalSeparator == {<<>>, <<",">>, <<";">>}

\* the text typed is a1, then sep, then whatever is left
RangeOf(a1, sep) ==
    /\ Len(a1.text) + Len(sep) <= Len(typed)
    /\ SubSeq(typed, 1, Len(a1.text) + Len(sep)) = a1.text \o sep
Following(a1, sep) == SubSeq(typed, Len(a1.text) + Len(sep) + 1, Len(typed))

\* C24: parse_range applies the default rules for every combination of
\* address1 written or not, separator absent, comma or semicolon, address2
\* written or not: one address and no separator gives address1 = address2
\* = that address; a separator with no address after it gives address2 =
\* Current; a separator with no address before it gives address1 =
\* Current; the empty text gives (Current, Comma, Current); the separator
\* is Semicolon only if ; was written; the result never holds None.
C24_RangeDefaults ==
    RangeParsed =>
        /\ \A a1 \in OptionalAddress, sep \in OptionalSeparator :
              \A a2 \in {a \in OptionalAddress : a.text = Following(a1, sep)} :
                 ( /\ RangeOf(a1, sep)
                   /\ sep = <<>> => a2 = NotWritten
                   /\ ~(typed = <<";">> /\ last.handler = "shorthand") )
                 => /\ last.res = "Ok"
                    /\ command.address1 =
                          IF a1 = NotWritten THEN Current ELSE a1.address
                    /\ command.address2 =
                          IF a2 # NotWritten THEN a2.address
                          ELSE IF sep # <<>> THEN Current
                          ELSE command.address1
                    /\ command.range_sep =
                          IF sep = <<";">> THEN "Semicolon" ELSE "Comma"
        /\ last.res = "Ok"
              => /\ command.address1 # NoAddress
                 /\ command.address2 # NoAddress
        /\ command.range_sep = "Semicolon" => \E k \in 1..Len(typed) : typed[k] = ";"

\* "50," : an address and a comma, address2 is the current line
C24_Witness ==
    /\ RangeParsed
    /\ typed = <<"5", "0", ",">>
    /\ last.res = "Ok"
    /\ ParsedRange = <<Absolute(50), "Comma", Current>>

\* ",5" and "5;$" and "5" and the empty text
C24_WitnessNoAddress1 ==
    RangeParsed /\ typed = <<",", "5">> /\ ParsedRange = <<Current, "Comma", Absolute(5)>>
C24_WitnessSemicolon ==
    RangeParsed /\ typed = <<"5", ";", "$">>
    /\ ParsedRange = <<Absolute(5), "Semicolon", Last>>
C24_WitnessOneAddress ==
    RangeParsed /\ typed = <<"5">> /\ ParsedRange = <<Absolute(5), "Comma", Absolute(5)>>
C24_WitnessEmpty ==
    RangeParsed /\ typed = <<>> /\ ParsedRange = <<Current, "Comma", Current>>

\* C25: parsing never panics or aborts the process: every line typed,
\* malformed ranges and an address of more digits than fit in the machine
\* integer included, yields a command or a parse error.
C25_ParsingNeverPanics ==
    (RangeParsed \/ LineParsed)
        => /\ last.res \in {"Ok", "ParseError"}
           /\ status = "Running"

\* (what does hold) a line that is refused is refused with a parse error
C25_WitnessParseError ==
    LineParsed /\ typed = <<"5", "!">> /\ last.res = "ParseError"

----------------------------------------------------------------------------
(* errors and the end of the loop (Spec) *)

\* the errors command_runner returns
CommandErrors == {"InvalidRange", "EmptyBuffer", "NoFilename", "IoError",
                  "InputModeError"}

\* C26: a parse error is recovered by the loop: after a line that fails to
\* parse the error is reported, the loop is still running with the buffer
\* unchanged, and the next line is read and executed.
C26_ParseErrorIsRecovered ==
    last.res = "ParseError"
        => /\ status = "Running"
           /\ buffer = old
           /\ ENABLED (LoopContinue \/ AnyCommand)

\* C27: no command error ends the loop: after command_runner has returned
\* an error (InvalidRange, EmptyBuffer, a failed save, InputModeError) the
\* loop is still running and goes on to read the next command; the loop
\* ends only through q, a successful wq, or end of input, an interrupt or
\* a read failure at the prompt.
C27_OnlyQuitOrEndOfInputEndsTheLoop ==
    /\ (Ran /\ last.res \in CommandErrors)
          => /\ status = "Running"
             /\ ENABLED LoopContinue
             /\ ~ENABLED LoopBreak
    /\ status # "Running"
          => \/ last.res = "Quit" /\ (Verb("q") \/ (Verb("wq") /\ last.written.some))
             \/ last.res \in ReadlineErrors

\* (what does hold) the errors command_runner returns never end the loop,
\* and a clean end of the loop comes from q, a successful wq or readline
C27_CommandErrorsAreRecovered ==
    /\ (Ran /\ last.res \in CommandErrors)
          => /\ status = "Running"
             /\ ENABLED LoopContinue
             /\ ~ENABLED LoopBreak
    /\ status = "Terminated"
          => \/ last.res = "Quit" /\ (Verb("q") \/ (Verb("wq") /\ last.written.some))
             \/ last.res \in ReadlineErrors

----------------------------------------------------------------------------
(* save then load (SpecFile) *)

Loaded == pc = "loaded"

\* C29: for every buffer, save to a path followed by a load of the same
\* path gives a buffer whose lines equal the original lines (an absent
\* lines value, an empty sequence, empty lines and a line that ends in a
\* carriage return included); the load sets the file name to the path and
\* current_line to 0.
C29_SaveThenLoadGivesSameLines ==
    Loaded
        => /\ buffer.lines = old.lines
           /\ buffer.filename = SomeStr(ArgName)
           /\ buffer.current_line = 0

\* (what does hold) the file name and the cursor after the load, and the
\* lines when they were present and none ended in a carriage return
C29_SaveThenLoadWithoutCarriageReturn ==
    Loaded
        => /\ buffer.filename = SomeStr(ArgName)
           /\ buffer.current_line = 0
           /\ buffer.lines.some
           /\ buffer.lines.v = [k \in 1..Len(OldLines) |-> without_line_end(OldLines[k])]

----------------------------------------------------------------------------
(* line-input mode (SpecInput) *)

InputReturned == pc = "collected"

\* the lines typed before the first line that is exactly "."
RECURSIVE BeforeLoneDot(_)
BeforeLoneDot(lines) ==
    IF lines = <<>> \/ Head(lines) = <<".">> THEN <<>>
    ELSE <<Head(lines)>> \o BeforeLoneDot(Tail(lines))

\* C30: line-input mode ends only on a line that is exactly "." and
\* returns, in order, all the lines read before it, without the
\* terminator; a line that holds a dot with whitespace around it (" ." or
\* ". ") is no terminator and is collected as text.
C30_OnlyALoneDotEndsInput ==
    (InputReturned /\ last.res = "Ok")
        => Collected = BeforeLoneDot(typed.lines)

\* the lines typed before the first line that is a dot once trimmed
RECURSIVE BeforeTrimmedDot(_)
BeforeTrimmedDot(lines) ==
    IF lines = <<>> \/ trim(Head(lines)) = <<".">> THEN <<>>
    ELSE <<Head(lines)>> \o BeforeTrimmedDot(Tail(lines))

\* (what does hold) the lines before the first line that is a dot with or
\* without whitespace around it are returned, in order, and nothing else
C30_InputEndsOnTrimmedDot ==
    (InputReturned /\ last.res = "Ok")
        => Collected = BeforeTrimmedDot(typed.lines)

----------------------------------------------------------------------------
(* i, a and c with line-input mode cut short (SpecEdit) *)

\* line-input mode was entered, and readline gave Interrupted or Eof before
\* any line that ends the input was typed
InputCut ==
    /\ Ran
    /\ last.input
    /\ typed.end \in {"Interrupted", "Eof"}
    /\ \A k \in DOMAIN typed.lines : trim(typed.lines[k]) # <<".">>

\* the old lines with those from i + 1 to j replaced by the lines typed
Replaced(i, j) ==
    SomeLines(SubSeq(OldLines, 1, i) \o typed.lines \o SubSeq(OldLines, j + 1, Length))

\* C31: an interrupt or end of input in line-input mode gives Ok with the
\* lines collected so far; the enclosing i, a or c then splices exactly
\* those lines and returns Continue, so that an interrupted c that collected
\* nothing still removes the addressed range.
C31_InterruptedInputIsSpliced ==
    InputCut =>
        /\ env.input = [err |-> FALSE, lines |-> typed.lines]
        /\ last.res = "Continue"
        /\ \E i \in 0..Length, j \in 0..Length :
              /\ i <= j
              /\ ~Verb("c") => i = j
              /\ buffer.lines = Replaced(i, j)
        /\ (Verb("c") /\ InRange) => buffer.lines = Replaced(R1 - 1, R2)

\* the same, for the commands that did not abort the process
C31_InterruptedInputIsSplicedUnlessPanic ==
    (InputCut /\ last.res # "Panic") =>
        /\ env.input = [err |-> FALSE, lines |-> typed.lines]
        /\ last.res = "Continue"
        /\ \E i \in 0..Length, j \in 0..Length :
              /\ i <= j
              /\ ~Verb("c") => i = j
              /\ buffer.lines = Replaced(i, j)
        /\ (Verb("c") /\ InRange) => buffer.lines = Replaced(R1 - 1, R2)

\* an interrupted c that collected nothing removed two lines
C31_InterruptedCorrectRemoves ==
    /\ InputCut /\ Verb("c") /\ typed.lines = <<>> /\ typed.end = "Interrupted"
    /\ R1 = 1 /\ R2 = 2 /\ Length = 3
    /\ len(buffer) = 1 /\ last.res = "Continue"

----------------------------------------------------------------------------
(* p, n and = on a buffer without lines (Spec) *)

Reads == Verb("p") \/ Verb("n") \/ Verb("=")

\* the buffer the command found, with absent lines for an empty sequence of
\* lines and an empty sequence for absent lines
Twin ==
    [old EXCEPT !.lines = IF old.lines.some THEN NoneLines ELSE SomeLines(<<>>)]

\* the same command run on the twin
OnTwin == command_runner(Twin, command, env.input, env.io_ok)

\* C32: p, n and = treat absent lines and an empty sequence of lines alike:
\* for the same command and cursor they return the same result (the same
\* error or the same output) and leave the same current_line.
C32_AbsentAndEmptyReadAlike ==
    (Ran /\ Reads /\ Length = 0)
        => /\ OnTwin.o.res = last.res
           /\ OnTwin.o.out = last.out
           /\ OnTwin.o.buffer.current_line = buffer.current_line
           /\ OnTwin.validated = last.validated

\* p reached its handler on an empty sequence of lines and was refused for
\* the buffer being empty
C32_Witness ==
    /\ Ran /\ Verb("p") /\ old.lines = SomeLines(<<>>)
    /\ last.handler = "p" /\ last.res = "EmptyBuffer"

\* = printed 1 on a buffer that never had lines
C32_WitnessAbsent ==
    /\ Ran /\ Verb("=") /\ old.lines = NoneLines
    /\ last.out = <<"1">> /\ buffer.current_line = 1

----------------------------------------------------------------------------
(* line 0 as an endpoint of d and c (Spec) *)

Destructive == Verb("d") \/ Verb("c")

\* address1 or address2 denotes line 0, written as 0 or reached as the
\* current line
DenotesLineZero == R1 = 0 \/ R2 = 0

\* C33: line 0 is never a valid range endpoint for the destructive verbs:
\* d and c are rejected, the buffer unchanged, whenever address1 or address2
\* denotes line 0, whether written as Absolute(0) or reached as Current
\* while current_line is 0.
C33_LineZeroIsNoEndpoint ==
    (Ran /\ Destructive /\ DenotesLineZero)
        => /\ last.res \in Rejections
           /\ buffer.lines = old.lines
           /\ buffer.current_line = Repaired

\* the same for line 0 written as Absolute(0) in address1
C33_WrittenLineZeroIsNoEndpoint ==
    (Ran /\ Destructive /\ command.address1 = Absolute(0))
        => /\ last.res \in Rejections
           /\ buffer.lines = old.lines
           /\ buffer.current_line = Repaired

\* a bare d right after a file is loaded removes line 1
C33_BareDeleteAfterLoad ==
    /\ Ran /\ Verb("d")
    /\ command.address1 = Current /\ command.address2 = Current
    /\ old.current_line = 0 /\ Length = 2
    /\ last.res = "Continue" /\ len(buffer) = 1

----------------------------------------------------------------------------
(* the cursor repair at the start of a command (Spec) *)

\* the handlers that do not set the cursor
KeepsCursor == {"none", "noop", "q", "w", "wq", "p", "n"}

\* a bare `.` command, issued with the cursor parked beyond the end
ParkedBare ==
    /\ Ran
    /\ old.current_line > Length
    /\ command.address1 = Current
    /\ command.address2 = Current

LastLine == OldLines[Length]
AllButLast == SubSeq(OldLines, 1, Length - 1)

\* C34: the cursor repair runs at the start of every command, before any
\* address is resolved: a cursor above the length becomes the length, any
\* other is untouched; Current is resolved from the repaired cursor and the
\* handlers are dispatched with it; a bare `.` command issued with the
\* cursor parked beyond the end of a shrunk buffer is accepted and operates
\* on the last line.
C34_CursorRepairedBeforeResolution ==
    /\ (Ran /\ last.handler \in KeepsCursor) => buffer.current_line = Repaired
    /\ Ran => (last.validated <=> (R1 <= R2 /\ R2 <= Length))
    /\ ParkedBare => (last.validated /\ last.handler = handler_of(command))
    /\ (ParkedBare /\ Length >= 1) =>
          /\ Verb("p") => last.out = <<LastLine>>
          /\ Verb("n") => last.out = <<right_align4(Length) \o "\t" \o LastLine>>
          /\ Verb("=") => (last.out = <<show(Length)>> /\ buffer.current_line = Length)
          /\ Verb("d") => buffer.lines = SomeLines(AllButLast)
          /\ (Verb("c") /\ ~env.input.err)
                => buffer.lines = SomeLines(AllButLast \o Collected)
          /\ (Verb("a") /\ ~env.input.err)
                => buffer.lines = SomeLines(OldLines \o Collected)
          /\ (Verb("i") /\ ~env.input.err)
                => buffer.lines = SomeLines(AllButLast \o Collected \o <<LastLine>>)

\* c left the cursor beyond the end of the one line that is left, and a
\* bare p prints that line
C34_Witness ==
    /\ ParkedBare /\ Verb("p")
    /\ old.current_line = 2 /\ Length = 1
    /\ last.res = "Continue" /\ last.out = <<LastLine>>
    /\ buffer.current_line = 1

----------------------------------------------------------------------------
(* the cursor after a command (Spec) *)

\* C35: from an empty or freshly loaded buffer, after every command run by
\* command_runner, accepted or rejected, 0 <= current_line <= length.
C35_CursorWithinBuffer ==
    Ran => (0 <= buffer.current_line /\ buffer.current_line <= len(buffer))

\* = on a buffer that never had lines leaves the cursor at 1
C35_LineNumberOnEmptyBuffer ==
    Ran /\ Verb("=") /\ old = empty /\ buffer.current_line = 1 /\ len(buffer) = 0

\* a on a buffer that never had lines puts the cursor one past the lines
\* it collected
C35_AppendOnEmptyBuffer ==
    /\ Ran /\ Verb("a") /\ old = empty /\ last.res = "Continue"
    /\ Len(Collected) = 2 /\ len(buffer) = 2 /\ buffer.current_line = 3

\* c replaced lines 2 to 3 of three by nothing and left the cursor at 2
C35_CorrectShrinks ==
    /\ Ran /\ Verb("c") /\ last.res = "Continue"
    /\ R1 = 2 /\ R2 = 3 /\ Length = 3 /\ Collected = <<>>
    /\ buffer.current_line = 2 /\ len(buffer) = 1

----------------------------------------------------------------------------
(* accesses out of bounds (Spec) *)

\* C36: no sequence of commands run by command_runner, from an empty or
\* loaded buffer and with any collected lines, reaches an access out of
\* bounds: every range spliced by i, a, c and d lies within the lines (no
\* splice panics) and p and n print only lines that exist; also on a buffer
\* whose lines are an empty sequence.
C36_NoAccessOutOfBounds ==
    Ran => /\ last.res # "Panic"
           /\ ((Verb("p") \/ Verb("n")) /\ last.res = "Continue")
                 => (Low <= High /\ High < Length)

\* the part of it that is about p and n
C36_PrintedLinesExist ==
    (Ran /\ (Verb("p") \/ Verb("n")) /\ last.res = "Continue")
        => (Low <= High /\ High < Length /\ Len(last.out) = High - Low + 1)

\* every line was deleted, and c then panics on the empty sequence
C36_CorrectAfterDeletingAll ==
    /\ Ran /\ Verb("c") /\ old.lines = SomeLines(<<>>)
    /\ old.current_line = 0 /\ last.res = "Panic"

----------------------------------------------------------------------------
(* the order of the indices after validation (Spec) *)

\* the indices the handlers compute, on the buffer validate_range hands them
Index1 == address_to_index(command.address1, clamp_current_line(old))
Index2 == address_to_index(command.address2, clamp_current_line(old))

\* C37: for every command that passes validate_range the index of address1
\* is at most the index of address2; so p and n never take their low > high
\* branch through command_runner, and the ranges spliced by d and c are
\* never inverted.
C37_ValidatedIndicesAreInOrder ==
    (Ran /\ last.validated)
        => /\ Index1 <= Index2
           /\ (Verb("p") \/ Verb("n")) => last.res # "InvalidRange"
           /\ (Verb("p") \/ Verb("n")) => last.res \in {"Continue", "EmptyBuffer"}
           /\ (Destructive /\ old.lines.some /\ last.res = "Continue")
                 => len(buffer) = Length - (Index2 + 1 - Index1)
                                  + (IF Verb("c") THEN Len(Collected) ELSE 0)

\* a range of more than one line passes validation and is printed
C37_Witness ==
    /\ Ran /\ last.validated /\ Verb("p")
    /\ command.address1 = Current /\ command.address2 = Last
    /\ Index1 = 0 /\ Index2 = 2 /\ last.res = "Continue" /\ Len(last.out) = 3

----------------------------------------------------------------------------
(* what p and n leave of the buffer (Spec) *)

Prints == Verb("p") \/ Verb("n")

\* C38: p and n, whether they succeed or fail, leave lines and the file
\* name unchanged, and leave current_line at its value after the
\* start-of-command clamp, for every range.
C38_PrintingLeavesBuffer ==
    (Ran /\ Prints)
        => /\ buffer.lines = old.lines
           /\ buffer.filename = old.filename
           /\ buffer.current_line = Repaired

\* p printed lines 2 to 3 with the cursor on line 1, and the cursor stayed
C38_Witness ==
    /\ Ran /\ Verb("p") /\ last.res = "Continue"
    /\ R1 = 2 /\ R2 = 3 /\ old.current_line = 1
    /\ Len(last.out) = 2 /\ buffer.current_line = 1

\* n was refused with the cursor parked beyond the end, and the cursor is
\* now the length
C38_WitnessRejected ==
    /\ Ran /\ Verb("n") /\ last.res = "InvalidRange"
    /\ old.current_line > Length /\ buffer.current_line = Length

----------------------------------------------------------------------------
(* a at line 0 (Spec) *)

\* a addressed with Current on a buffer with lines and the cursor at 0, the
\* state right after a load, and lines were collected
AppendAtCursorZero ==
    /\ Ran /\ Verb("a") /\ ~env.input.err
    /\ command.address1 = Current /\ command.address2 = Current
    /\ old.current_line = 0 /\ Length >= 1

\* the same a with line 0 written as Absolute(0)
WrittenZero ==
    command_runner(old, [command EXCEPT !.address1 = Absolute(0),
                                        !.address2 = Absolute(0)],
                   env.input, env.io_ok)

\* C39: on a buffer with lines and current_line = 0, a with the address
\* Current gives the same lines and the same cursor as a with the address
\* Absolute(0): the collected lines become the first lines of the buffer.
C39_AppendAtLineZeroEitherWay ==
    AppendAtCursorZero
        => /\ buffer.lines = WrittenZero.o.buffer.lines
           /\ buffer.current_line = WrittenZero.o.buffer.current_line
           /\ buffer.lines = SomeLines(Collected \o OldLines)

\* 0a puts the collected lines first
C39_WrittenZeroPutsLinesFirst ==
    (Ran /\ Verb("a") /\ ~env.input.err /\ command.address2 = Absolute(0)
         /\ last.validated /\ Length >= 1)
        => /\ buffer.lines = SomeLines(Collected \o OldLines)
           /\ buffer.current_line = Len(Collected)

\* a bare a right after a load puts the collected line after line 1
C39_BareAppendAfterLoad ==
    /\ AppendAtCursorZero /\ Length = 2 /\ Len(Collected) = 1
    /\ buffer.lines = SomeLines(<<OldLines[1]>> \o Collected \o <<OldLines[2]>>)
    /\ buffer.current_line = 2

====
